---- MODULE Spec2Model ----
(***************************************************************************)
(* delete-old-releases (src/index.js): parseInputs, the checkReleaseName   *)
(* closure, fetchAndFilterReleases, deleteReleases and run, as a state     *)
(* machine whose steps are the stretches of code between two awaits.       *)
(*                                                                         *)
(* Strings that the code inspects (release names, prefix, regex source,    *)
(* tags) are sequences of one-character strings, so that startsWith,       *)
(* indexOf, RegExp.test and String.match are computed, not assumed.        *)
(***************************************************************************)
EXTENDS Integers, Sequences, FiniteSets, TLC

(***************************************************************************)
(* Bounds of the exploration.                                              *)
(***************************************************************************)
\* longest listing of a repository that fits on one page
MaxShort == 2
\* most full pages (of per_page records) a repository serves
MaxFullPages == 1
\* longest listing of which every reordering is tried
MaxPermuted == 3

(***************************************************************************)
(* Values of the JavaScript runtime.                                       *)
(***************************************************************************)
\* the value undefined; no string of characters equals it
Undefined == <<"undefined">>
\* null, as a timestamp
Null == -1

Min(a, b) == IF a < b THEN a ELSE b

(***************************************************************************)
(* String.prototype.startsWith and String.prototype.indexOf.               *)
(***************************************************************************)
StartsAt(s, i, needle) ==
  /\ i + Len(needle) - 1 <= Len(s)
  /\ SubSeq(s, i, i + Len(needle) - 1) = needle

startsWith(s, prefix) == StartsAt(s, 1, prefix)

\* 0-based index of the first occurrence, -1 when there is none
indexOf(s, needle) ==
  LET hits == {i \in 1..(Len(s) + 1) : StartsAt(s, i, needle)}
  IN  IF hits = {} THEN -1
      ELSE (CHOOSE i \in hits : \A k \in hits : i <= k) - 1

(***************************************************************************)
(* new RegExp(regex), pattern.test(name) and name.match(pattern) for the   *)
(* regex syntax the inputs below use: ^ $ . \d \x literals, the postfix    *)
(* quantifiers * + ? on one character, a group, and alternation at the top *)
(* level. Matching is the backtracking search of the language: leftmost    *)
(* start, alternatives in order, quantifiers greedy.                       *)
(***************************************************************************)
GroupOpen == <<"(", "?", "<", "g", "r", "o", "u", "p", ">">>

Item(t, c, q, named) == [t |-> t, c |-> c, q |-> q, named |-> named]

RECURSIVE ParseFrom(_, _)
ParseFrom(src, i) ==
  IF i > Len(src) THEN <<>>
  ELSE IF StartsAt(src, i, GroupOpen)
    THEN <<Item("open", "", "1", TRUE)>> \o ParseFrom(src, i + Len(GroupOpen))
  ELSE LET c == src[i] IN
    IF c = "^" THEN <<Item("bol", "", "1", FALSE)>> \o ParseFrom(src, i + 1)
    ELSE IF c = "$" THEN <<Item("eol", "", "1", FALSE)>> \o ParseFrom(src, i + 1)
    ELSE IF c = "(" THEN <<Item("open", "", "1", FALSE)>> \o ParseFrom(src, i + 1)
    ELSE IF c = ")" THEN <<Item("close", "", "1", FALSE)>> \o ParseFrom(src, i + 1)
    ELSE IF c = "|" THEN <<Item("alt", "", "1", FALSE)>> \o ParseFrom(src, i + 1)
    ELSE
      LET esc  == c = "\\" /\ i < Len(src)
          kind == IF esc THEN (IF src[i + 1] = "d" THEN "digit" ELSE "lit")
                  ELSE IF c = "." THEN "any" ELSE "lit"
          ch   == IF esc THEN src[i + 1] ELSE c
          n    == i + (IF esc THEN 2 ELSE 1)
          q    == IF n <= Len(src) /\ src[n] \in {"*", "+", "?"} THEN src[n] ELSE "1"
          next == IF q = "1" THEN n ELSE n + 1
      IN  <<Item(kind, ch, q, FALSE)>> \o ParseFrom(src, next)

\* new RegExp(regex)
RegExp(regex) == ParseFrom(regex, 1)

Digits == {"0", "1", "2", "3", "4", "5", "6", "7", "8", "9"}

CharMatches(item, ch) ==
  CASE item.t = "any"   -> TRUE
    [] item.t = "digit" -> ch \in Digits
    [] OTHER            -> ch = item.c

NoGroup == [s |-> 0, e |-> 0]
NoMatch == [ok |-> FALSE, g |-> NoGroup]

\* how many characters from position j on the item matches in a row, at most cap
RECURSIVE RunLength(_, _, _, _)
RunLength(item, s, j, cap) ==
  IF cap = 0 \/ j > Len(s) \/ ~CharMatches(item, s[j]) THEN 0
  ELSE 1 + RunLength(item, s, j + 1, cap - 1)

\* the first attempt if it matched, else the next one
OrElse(r, next) == IF r.ok THEN r ELSE next

RECURSIVE MatchFrom(_, _, _, _, _), TryCount(_, _, _, _, _, _, _)
\* items[k..] against s from position j on; g is the named group's span so far
MatchFrom(items, k, s, j, g) ==
  IF k > Len(items) THEN [ok |-> TRUE, g |-> g]
  ELSE LET it == items[k] IN
    CASE it.t = "alt"   -> [ok |-> TRUE, g |-> g]
      [] it.t = "bol"   -> IF j = 1 THEN MatchFrom(items, k + 1, s, j, g) ELSE NoMatch
      [] it.t = "eol"   -> IF j = Len(s) + 1 THEN MatchFrom(items, k + 1, s, j, g)
                           ELSE NoMatch
      [] it.t = "open"  -> MatchFrom(items, k + 1, s, j,
                                     IF it.named THEN [s |-> j, e |-> 0] ELSE g)
      [] it.t = "close" -> MatchFrom(items, k + 1, s, j,
                                     IF g.s # 0 /\ g.e = 0 THEN [g EXCEPT !.e = j] ELSE g)
      [] OTHER ->
           LET least == IF it.q \in {"1", "+"} THEN 1 ELSE 0
               cap   == IF it.q \in {"1", "?"} THEN 1 ELSE Len(s)
           IN  TryCount(items, k, s, j, g, RunLength(it, s, j, cap), least)

\* the greedy quantifier: n characters first, then fewer, down to least
TryCount(items, k, s, j, g, n, least) ==
  IF n < least THEN NoMatch
  ELSE OrElse(MatchFrom(items, k + 1, s, j + n, g),
              TryCount(items, k, s, j, g, n - 1, least))

\* where the alternatives of the pattern start
AltStarts(items) ==
  {1} \cup {k + 1 : k \in {x \in 1..Len(items) : items[x].t = "alt"}}

RECURSIVE TryAlts(_, _, _, _)
TryAlts(items, s, j, k) ==
  IF k > Len(items) + 1 THEN NoMatch
  ELSE IF k \in AltStarts(items)
    THEN OrElse(MatchFrom(items, k, s, j, NoGroup), TryAlts(items, s, j, k + 1))
  ELSE TryAlts(items, s, j, k + 1)

RECURSIVE Search(_, _, _)
Search(items, s, j) ==
  IF j > Len(s) + 1 THEN NoMatch
  ELSE OrElse(TryAlts(items, s, j, 1), Search(items, s, j + 1))

\* pattern.test(releaseName)
test(pattern, releaseName) == Search(pattern, releaseName, 1).ok

HasNamedGroup(pattern) ==
  \E k \in 1..Len(pattern) : pattern[k].t = "open" /\ pattern[k].named

\* releaseName.match(pattern).groups.group of a name the pattern matches:
\* [threw |-> TRUE] when .groups is undefined (the pattern has no named group),
\* else the captured text, or undefined when the group took no part in the match
groupOf(pattern, releaseName, m) ==
  IF ~HasNamedGroup(pattern) THEN [threw |-> TRUE, group |-> Undefined]
  ELSE IF m.g.s = 0 \/ m.g.e = 0 THEN [threw |-> FALSE, group |-> Undefined]
  ELSE [threw |-> FALSE, group |-> SubSeq(releaseName, m.g.s, m.g.e - 1)]

matchGroup(pattern, releaseName) ==
  groupOf(pattern, releaseName, Search(pattern, releaseName, 1))

(***************************************************************************)
(* Errors. A thrown value is either an Error object, whose .message is its *)
(* text, or a bare string, which has no .message property.                 *)
(***************************************************************************)
ErrorObject(text) == [type |-> "Error", text |-> text]
ThrownString(text) == [type |-> "string", text |-> text]
NoError == [type |-> "none", text |-> ""]

RegexRequired ==
  "When using the keep-latest-releases option, a regex input is required."
GroupRequired ==
  "When using the keep-latest-releases option, regex needs to contain a capturing group named \"group\"."
GroupsUndefined == "Cannot read properties of undefined (reading 'group')"

\* error.message, as core.setFailed receives it
message(error) ==
  IF error.type = "Error" THEN [undefined |-> FALSE, text |-> error.text]
  ELSE [undefined |-> TRUE, text |-> ""]

(***************************************************************************)
(* Time, in days. moment() is the 31st, as in the tests; max-age is an     *)
(* ISO 8601 duration.                                                      *)
(***************************************************************************)
Now == 31

duration(maxAge) ==
  CASE maxAge = "P1W" -> 7
    [] maxAge = "P1D" -> 1
    [] OTHER          -> 0

\* isSameOrAfter in the place of isAfter
isSameOrAfter(dateCutoff, releaseDate) ==
  releaseDate # Null /\ dateCutoff >= releaseDate

\* dateCutoff.isAfter(releaseDate); a null date is an invalid moment
isAfter(dateCutoff, releaseDate) ==
  releaseDate # Null /\ dateCutoff > releaseDate

(***************************************************************************)
(* parseInputs.                                                            *)
(***************************************************************************)
NoInputs ==
  [prefix |-> <<>>, regex |-> <<>>, pattern |-> <<>>, keepLatestReleases |-> FALSE,
   dateCutoff |-> 0, deleteTags |-> FALSE, dryRun |-> FALSE]

\* lines 31-33 with the truthiness of the input in the place of === 'true'
parseInputsTruthy(getInput) ==
  LET prefix             == getInput.prefix
      regex              == getInput.regex
      maxAge             == getInput.maxAge
      deleteTags         == getInput.deleteTags \notin {"", "null"}
      keepLatestReleases == getInput.keepLatestReleases \notin {"", "null"}
      dryRun             == getInput.dryRun \notin {"", "null"}
  IN  IF keepLatestReleases /\ regex = <<>>
        THEN [threw |-> TRUE, error |-> ThrownString(RegexRequired), inputs |-> NoInputs]
      ELSE IF keepLatestReleases /\ indexOf(regex, GroupOpen) = -1
        THEN [threw |-> TRUE, error |-> ThrownString(GroupRequired), inputs |-> NoInputs]
      ELSE [threw |-> FALSE, error |-> NoError,
            inputs |-> [prefix |-> prefix, regex |-> regex, pattern |-> RegExp(regex),
                        keepLatestReleases |-> keepLatestReleases,
                        dateCutoff |-> Now - duration(maxAge),
                        deleteTags |-> deleteTags, dryRun |-> dryRun]]

parseInputs(getInput) ==
  LET prefix             == getInput.prefix
      regex              == getInput.regex
      maxAge             == getInput.maxAge
      deleteTags         == getInput.deleteTags = "true"
      keepLatestReleases == getInput.keepLatestReleases = "true"
      dryRun             == getInput.dryRun = "true"
  IN  IF keepLatestReleases /\ regex = <<>>
        THEN [threw |-> TRUE, error |-> ThrownString(RegexRequired), inputs |-> NoInputs]
      ELSE IF keepLatestReleases /\ indexOf(regex, GroupOpen) = -1
        THEN [threw |-> TRUE, error |-> ThrownString(GroupRequired), inputs |-> NoInputs]
      ELSE [threw |-> FALSE, error |-> NoError,
            inputs |-> [prefix |-> prefix, regex |-> regex, pattern |-> RegExp(regex),
                        keepLatestReleases |-> keepLatestReleases,
                        dateCutoff |-> Now - duration(maxAge),
                        deleteTags |-> deleteTags, dryRun |-> dryRun]]

\* an includes that finds nothing
includesNothing(list, x) == FALSE

includes(list, x) == \E k \in 1..Len(list) : list[k] = x

\* lines 67-71 without the push of line 69
checkReleaseGroupNoPush(found, m) ==
  IF m.threw THEN [threw |-> TRUE, ret |-> FALSE, found |-> found]
  ELSE IF ~includes(found, m.group)
    THEN [threw |-> FALSE, ret |-> FALSE, found |-> found]
  ELSE [threw |-> FALSE, ret |-> TRUE, found |-> found]

\* lines 68-71 with true returned for the first release of a group as well
checkReleaseGroupAll(found, m) ==
  IF m.threw THEN [threw |-> TRUE, ret |-> FALSE, found |-> found]
  ELSE IF ~includes(found, m.group)
    THEN [threw |-> FALSE, ret |-> TRUE, found |-> Append(found, m.group)]
  ELSE [threw |-> FALSE, ret |-> TRUE, found |-> found]

\* lines 68-71 with the results exchanged: the first release of a group passes
checkReleaseGroupKeepLater(found, m) ==
  IF m.threw THEN [threw |-> TRUE, ret |-> FALSE, found |-> found]
  ELSE IF ~includes(found, m.group)
    THEN [threw |-> FALSE, ret |-> TRUE, found |-> Append(found, m.group)]
  ELSE [threw |-> FALSE, ret |-> FALSE, found |-> found]

\* lines 67-71: m is releaseName.match(pattern).groups.group, or the TypeError
checkReleaseGroup(found, m) ==
  IF m.threw THEN [threw |-> TRUE, ret |-> FALSE, found |-> found]
  ELSE IF ~includes(found, m.group)
    THEN [threw |-> FALSE, ret |-> FALSE, found |-> Append(found, m.group)]
  ELSE [threw |-> FALSE, ret |-> TRUE, found |-> found]

\* the prefix check, made after the group check returned c
prefixAfterGroup(in, releaseName, c) ==
  IF c.threw \/ ~c.ret THEN c
  ELSE [threw |-> FALSE,
        ret |-> in.prefix = <<>> \/ startsWith(releaseName, in.prefix),
        found |-> c.found]

\* checkReleaseName without the keepLatestReleases test of line 66
checkReleaseNameKeepsAlways(in, found, releaseName) ==
  IF in.prefix # <<>> /\ ~startsWith(releaseName, in.prefix)
    THEN [threw |-> FALSE, ret |-> FALSE, found |-> found]
  ELSE IF in.regex # <<>>
    THEN IF ~test(in.pattern, releaseName)
           THEN [threw |-> FALSE, ret |-> FALSE, found |-> found]
         ELSE checkReleaseGroup(found, matchGroup(in.pattern, releaseName))
  ELSE [threw |-> FALSE, ret |-> TRUE, found |-> found]

\* checkReleaseName with the group looked up before the prefix is checked
checkReleaseNameGroupFirst(in, found, releaseName) ==
  IF in.regex # <<>>
    THEN IF ~test(in.pattern, releaseName)
           THEN [threw |-> FALSE, ret |-> FALSE, found |-> found]
         ELSE IF in.keepLatestReleases
           THEN prefixAfterGroup(in, releaseName,
                  checkReleaseGroup(found, matchGroup(in.pattern, releaseName)))
         ELSE [threw |-> FALSE,
               ret |-> in.prefix = <<>> \/ startsWith(releaseName, in.prefix),
               found |-> found]
  ELSE [threw |-> FALSE,
        ret |-> in.prefix = <<>> \/ startsWith(releaseName, in.prefix),
        found |-> found]

\* checkReleaseName without the prefix check when a regex is configured
checkReleaseNameRegexFirst(in, found, releaseName) ==
  IF in.regex # <<>>
    THEN IF ~test(in.pattern, releaseName)
           THEN [threw |-> FALSE, ret |-> FALSE, found |-> found]
         ELSE IF in.keepLatestReleases
           THEN checkReleaseGroup(found, matchGroup(in.pattern, releaseName))
         ELSE [threw |-> FALSE, ret |-> TRUE, found |-> found]
  ELSE IF in.prefix # <<>> /\ ~startsWith(releaseName, in.prefix)
    THEN [threw |-> FALSE, ret |-> FALSE, found |-> found]
  ELSE [threw |-> FALSE, ret |-> TRUE, found |-> found]

\* The closure checkReleaseName; found is its foundReleaseGroups before the call.
checkReleaseName(in, found, releaseName) ==
  IF in.prefix # <<>> /\ ~startsWith(releaseName, in.prefix)
    THEN [threw |-> FALSE, ret |-> FALSE, found |-> found]
  ELSE IF in.regex # <<>>
    THEN IF ~test(in.pattern, releaseName)
           THEN [threw |-> FALSE, ret |-> FALSE, found |-> found]
         ELSE IF in.keepLatestReleases
           THEN checkReleaseGroup(found, matchGroup(in.pattern, releaseName))
         ELSE [threw |-> FALSE, ret |-> TRUE, found |-> found]
  ELSE [threw |-> FALSE, ret |-> TRUE, found |-> found]

(***************************************************************************)
(* The composed variant of the closure: three checks joined by &&.         *)
(***************************************************************************)
\* checkReleaseGroups with keep-latest-releases on
checkReleaseGroups(found, m) ==
  IF m.threw THEN [threw |-> TRUE, ret |-> FALSE, found |-> found]
  ELSE IF includes(found, m.group)
    THEN [threw |-> FALSE, ret |-> TRUE, found |-> found]
  ELSE [threw |-> FALSE, ret |-> FALSE, found |-> Append(found, m.group)]

checkReleaseNameAgainstPrefix(in, releaseName) ==
  IF in.prefix # <<>> THEN startsWith(releaseName, in.prefix) ELSE TRUE

checkReleaseNameAgainstRegex(in, releaseName) ==
  IF in.regex # <<>> THEN test(in.pattern, releaseName) ELSE TRUE

checkReleaseNameComposed(in, found, releaseName) ==
  IF ~checkReleaseNameAgainstPrefix(in, releaseName)
    THEN [threw |-> FALSE, ret |-> FALSE, found |-> found]
  ELSE IF ~checkReleaseNameAgainstRegex(in, releaseName)
    THEN [threw |-> FALSE, ret |-> FALSE, found |-> found]
  ELSE IF in.keepLatestReleases
    THEN checkReleaseGroups(found, matchGroup(in.pattern, releaseName))
  ELSE [threw |-> FALSE, ret |-> TRUE, found |-> found]

(***************************************************************************)
(* The inputs of a run and the releases of the repository.                 *)
(***************************************************************************)
\* ^(?<group>.*)-\d$
RegexGroup == <<"^">> \o GroupOpen \o <<".", "*", ")", "-", "\\", "d", "$">>
\* -\d$
RegexNoGroup == <<"-", "\\", "d", "$">>
\* -\d|\(?<group>   (an escaped parenthesis: the text "(?<group>" without a group)
RegexEscaped == <<"-", "\\", "d", "|", "\\">> \o GroupOpen

Prefixes == {<<>>, <<"d">>}
Regexes  == {<<>>, RegexGroup, RegexNoGroup, RegexEscaped}
Flags    == {"true", "false"}
MaxAges  == {"P1W"}

GetInputs ==
  [prefix : Prefixes, regex : Regexes, maxAge : MaxAges,
   deleteTags : Flags, keepLatestReleases : Flags, dryRun : Flags]
\* repositories of more than one page are run with deletion and tag deletion on
PagedGetInputs == {g \in GetInputs : g.deleteTags = "true" /\ g.dryRun = "false"}
\* what a flag input may hold besides 'true' and 'false': no value, another
\* spelling, and null (written "null"), which the stubs of the tests return
AnyFlags == Flags \cup {"", "TRUE", "null"}
FlagGetInputs ==
  [prefix : {<<>>}, regex : {<<>>, RegexGroup}, maxAge : MaxAges,
   deleteTags : AnyFlags, keepLatestReleases : AnyFlags, dryRun : AnyFlags]

\* a prefix that takes in a part of the names of a group
LongPrefix == <<"d", "-", "2">>
LongPrefixGetInputs ==
  [prefix : {LongPrefix}, regex : {RegexGroup}, maxAge : MaxAges,
   deleteTags : {"true"}, keepLatestReleases : Flags, dryRun : {"false"}]

Rel(name, draft, published, created) ==
  [name |-> name, tag_name |-> <<"v">> \o name, draft |-> draft,
   published_at |-> published, created_at |-> created]

\* the cut-off of the runs is day 24: 23 is before it, 25 after it
RecentD2    == Rel(<<"d", "-", "2">>, FALSE, 25, 23)
OldD2       == Rel(<<"d", "-", "2">>, FALSE, 23, 23)
UnpublishedD1 == Rel(<<"d", "-", "1">>, FALSE, Null, 23)
DraftD1     == Rel(<<"d", "-", "1">>, TRUE, Null, 23)
OldM1       == Rel(<<"m", "-", "1">>, FALSE, 23, 23)
CutoffM1    == Rel(<<"m", "-", "1">>, FALSE, 24, 23)
OldDx       == Rel(<<"d", "-", "x">>, FALSE, 23, 23)
OlderM1     == Rel(<<"m", "-", "1">>, FALSE, 22, 22)

Catalog == {RecentD2, OldD2, UnpublishedD1, DraftD1, OldM1, CutoffM1, OldDx}
\* what fills a full page: releases that are never selected
Fillers == {RecentD2, DraftD1}

per_page == 100

WithIds(rels) ==
  [i \in 1..Len(rels) |->
     [id |-> i, name |-> rels[i].name, tag_name |-> rels[i].tag_name,
      draft |-> rels[i].draft, published_at |-> rels[i].published_at,
      created_at |-> rels[i].created_at]]

ShortListings == UNION {[1..n -> Catalog] : n \in 0..MaxShort}
\* a full page starts, and a paged listing ends, with at most one old release
Edges == {<<>>} \cup {<<r>> : r \in {OldD2, UnpublishedD1, OldM1}}
FullPage(head, filler) == head \o [i \in 1..(per_page - Len(head)) |-> filler]

RECURSIVE Times(_, _)
Times(rels, n) == IF n = 0 THEN <<>> ELSE rels \o Times(rels, n - 1)

\* a listing that does not start with its most recent release
OldestFirst == <<OlderM1, OldM1>>

\* listings of names of one group, of which the long prefix takes in a part
LongPrefixListings ==
  {l \in ShortListings : \A i \in 1..Len(l) : l[i] \in {OldD2, UnpublishedD1}}

PagedListings ==
  {Times(FullPage(h, f), n) \o t :
     h \in Edges, f \in Fillers, n \in 1..MaxFullPages, t \in Edges}

Runs ==
  {<<g, WithIds(l)>> : g \in GetInputs, l \in ShortListings}
    \cup {<<g, WithIds(l)>> : g \in PagedGetInputs, l \in PagedListings}
    \cup {<<g, WithIds(OldestFirst)>> : g \in FlagGetInputs}
    \cup {<<g, WithIds(l)>> : g \in LongPrefixGetInputs, l \in LongPrefixListings}

\* octokit.rest.repos.listReleases of a repository with the given releases
listReleases(all, page, perPage) ==
  SubSeq(all, perPage * (page - 1) + 1, Min(Len(all), perPage * page))

(***************************************************************************)
(* fetchAndFilterReleases: the loop body over one page.                    *)
(***************************************************************************)
\* line 114 with the operands exchanged: created_at || published_at
releaseDateCreatedFirst(release) ==
  IF release.created_at # Null THEN release.created_at ELSE release.published_at

\* line 114: release.published_at || release.created_at
releaseDate(release) ==
  IF release.published_at # Null THEN release.published_at ELSE release.created_at

\* line 126 with "the page held a release" in the place of "the page was full"
hasMoreNonEmpty(releases) == Len(releases) > 0

\* line 126
hasMore(releases) == Len(releases) = per_page

\* line 117 without the isAfter test
selectAnyDate(release, in, acc, c) ==
  [releasesToDelete |->
     IF ~c.threw /\ c.ret
       THEN Append(acc.releasesToDelete,
                   [id |-> release.id, name |-> release.name, tag |-> release.tag_name])
       ELSE acc.releasesToDelete,
   found |-> c.found,
   checked |-> Append(acc.checked,
                      [name |-> release.name, ret |-> c.ret, threw |-> c.threw]),
   threw |-> c.threw]

\* line 118 with unshift in the place of push
selectUnshift(release, in, acc, c) ==
  [releasesToDelete |->
     IF ~c.threw /\ c.ret /\ isAfter(in.dateCutoff, releaseDate(release))
       THEN <<[id |-> release.id, name |-> release.name, tag |-> release.tag_name]>>
              \o acc.releasesToDelete
       ELSE acc.releasesToDelete,
   found |-> c.found,
   checked |-> Append(acc.checked,
                      [name |-> release.name, ret |-> c.ret, threw |-> c.threw]),
   threw |-> c.threw]

\* Line 117 and the push, of a release that is no draft; c is what
\* checkReleaseName returned for its name. acc: releasesToDelete and
\* foundReleaseGroups so far, the calls of checkReleaseName so far, and whether
\* a call threw (which ends the loop).
select(release, in, acc, c) ==
  [releasesToDelete |->
     IF ~c.threw /\ c.ret /\ isAfter(in.dateCutoff, releaseDate(release))
       THEN Append(acc.releasesToDelete,
                   [id |-> release.id, name |-> release.name, tag |-> release.tag_name])
       ELSE acc.releasesToDelete,
   found |-> c.found,
   checked |-> Append(acc.checked,
                      [name |-> release.name, ret |-> c.ret, threw |-> c.threw]),
   threw |-> c.threw]

\* the loop body without the draft test of line 117
forReleaseWithDrafts(release, in, acc) ==
  select(release, in, acc, checkReleaseName(in, acc.found, release.name))

\* one pass of the loop body
forRelease(release, in, acc) ==
  IF release.draft THEN acc
  ELSE select(release, in, acc, checkReleaseName(in, acc.found, release.name))

\* for (const release of releases), over releases[lo..hi] in order, ended by a
\* throw; the range is halved only to keep the evaluation shallow
RECURSIVE forReleases(_, _, _, _, _), thenReleases(_, _, _, _, _)
forReleases(releases, lo, hi, in, acc) ==
  IF lo > hi THEN acc
  ELSE IF lo = hi THEN forRelease(releases[lo], in, acc)
  ELSE thenReleases(releases, (lo + hi) \div 2 + 1, hi, in,
                    forReleases(releases, lo, (lo + hi) \div 2, in, acc))

thenReleases(releases, lo, hi, in, acc) ==
  IF acc.threw THEN acc ELSE forReleases(releases, lo, hi, in, acc)

\* the tag alone, without 'tags/'
refBare(tag) == tag

\* 'tags/' + releaseInfo.tag
ref(tag) == <<"t", "a", "g", "s", "/">> \o tag

(***************************************************************************)
(* The state of a run.                                                     *)
(***************************************************************************)
VARIABLES
  getInput,            \* the action's inputs, as core.getInput returns them
  repository,          \* the releases of the repository, in listing order
  pc,                  \* where run is: the await it is suspended at, or its end
  inputs,              \* what parseInputs returned
  foundReleaseGroups,  \* the closure variable of checkReleaseName
  page,                \* releaseListOptions.page
  releasesToDelete,    \* the list fetchAndFilterReleases builds and returns
  idx,                 \* position of deleteReleases' loop in that list
  calls,               \* every call of octokit made so far, with its outcome
  checked,             \* every call of checkReleaseName made so far, with its result
  thrown,              \* the error that ended the run, if one did
  failures             \* the messages given to core.setFailed

vars == <<getInput, repository, pc, inputs, foundReleaseGroups, page,
          releasesToDelete, idx, calls, checked, thrown, failures>>

Init ==
  /\ \E r \in Runs : getInput = r[1] /\ repository = r[2]
  /\ pc = "start"
  /\ inputs = NoInputs
  /\ foundReleaseGroups = <<>>
  /\ page = 0
  /\ releasesToDelete = <<>>
  /\ idx = 0
  /\ calls = <<>>
  /\ checked = <<>>
  /\ thrown = NoError
  /\ failures = <<>>

issue(log, op, arg) == Append(log, [op |-> op, arg |-> arg, status |-> "pending"])
settle(log, status) == [log EXCEPT ![Len(log)].status = status]

\* run's catch block: core.setFailed(error.message)
catch(error) ==
  /\ thrown' = error
  /\ failures' = Append(failures, message(error))
  /\ pc' = "failed"

\* deleteReleases without the dryRun test of line 143
deleteFromAlways(releases, i, log) ==
  IF i <= Len(releases)
    THEN /\ idx' = i
         /\ calls' = issue(log, "deleteRelease", <<releases[i].id>>)
         /\ pc' = "deleteRelease"
    ELSE /\ idx' = Len(releases) + 1
         /\ calls' = log
         /\ pc' = "done"

\* deleteReleases from the i-th release of the list on, up to its next await
deleteFrom(releases, i, log) ==
  IF i <= Len(releases) /\ ~inputs'.dryRun
    THEN /\ idx' = i
         /\ calls' = issue(log, "deleteRelease", <<releases[i].id>>)
         /\ pc' = "deleteRelease"
    ELSE /\ idx' = Len(releases) + 1
         /\ calls' = log
         /\ pc' = "done"

\* run up to the first await: parseInputs, then the first listReleases call
Start ==
  /\ pc = "start"
  /\ \E parsed \in {parseInputs(getInput)} :
       IF parsed.threw
         THEN /\ catch(parsed.error)
              /\ UNCHANGED <<inputs, page, calls>>
         ELSE /\ inputs' = parsed.inputs
              /\ page' = 1
              /\ calls' = issue(calls, "listReleases", <<1, per_page>>)
              /\ pc' = "listReleases"
              /\ UNCHANGED <<thrown, failures>>
  /\ UNCHANGED <<getInput, repository, foundReleaseGroups, releasesToDelete, idx, checked>>

\* a page arrives and is checked against seen groups that start empty again
ListReleasesReturnsFreshGroups ==
  /\ pc = "listReleases"
  /\ \E releases \in {listReleases(repository, page, per_page)} :
     \E acc \in {forReleases(releases, 1, Len(releases), inputs,
                   [releasesToDelete |-> releasesToDelete,
                    found |-> <<>>,
                    checked |-> checked, threw |-> FALSE])} :
         /\ releasesToDelete' = acc.releasesToDelete
         /\ foundReleaseGroups' = acc.found
         /\ checked' = acc.checked
         /\ inputs' = inputs
         /\ IF acc.threw
              THEN /\ catch(ErrorObject(GroupsUndefined))
                   /\ calls' = settle(calls, "ok")
                   /\ UNCHANGED <<page, idx>>
            ELSE IF hasMore(releases)
              THEN /\ page' = page + 1
                   /\ calls' = issue(settle(calls, "ok"), "listReleases",
                                     <<page + 1, per_page>>)
                   /\ UNCHANGED <<pc, idx, thrown, failures>>
            ELSE /\ deleteFrom(acc.releasesToDelete, 1, settle(calls, "ok"))
                 /\ UNCHANGED <<page, thrown, failures>>
  /\ UNCHANGED <<getInput, repository>>

\* a page arrives: the loop over its releases, then the next page or deleteReleases
ListReleasesReturns ==
  /\ pc = "listReleases"
  /\ \E releases \in {listReleases(repository, page, per_page)} :
     \E acc \in {forReleases(releases, 1, Len(releases), inputs,
                   [releasesToDelete |-> releasesToDelete,
                    found |-> foundReleaseGroups,
                    checked |-> checked, threw |-> FALSE])} :
         /\ releasesToDelete' = acc.releasesToDelete
         /\ foundReleaseGroups' = acc.found
         /\ checked' = acc.checked
         /\ inputs' = inputs
         /\ IF acc.threw
              THEN /\ catch(ErrorObject(GroupsUndefined))
                   /\ calls' = settle(calls, "ok")
                   /\ UNCHANGED <<page, idx>>
            ELSE IF hasMore(releases)
              THEN /\ page' = page + 1
                   /\ calls' = issue(settle(calls, "ok"), "listReleases",
                                     <<page + 1, per_page>>)
                   /\ UNCHANGED <<pc, idx, thrown, failures>>
            ELSE /\ deleteFrom(acc.releasesToDelete, 1, settle(calls, "ok"))
                 /\ UNCHANGED <<page, thrown, failures>>
  /\ UNCHANGED <<getInput, repository>>

\* listReleases failed and run went on to deleteReleases with the list so far
ListReleasesThrowsDeletes ==
  /\ pc = "listReleases"
  /\ inputs' = inputs
  /\ deleteFrom(releasesToDelete, 1, settle(calls, "failed"))
  /\ UNCHANGED <<getInput, repository, foundReleaseGroups, page, releasesToDelete,
                 checked, thrown, failures>>

\* listReleases failed: run's catch
ListReleasesThrows ==
  /\ pc = "listReleases"
  /\ calls' = settle(calls, "failed")
  /\ catch(ErrorObject("listReleases failed"))
  /\ UNCHANGED <<getInput, repository, inputs, foundReleaseGroups, page,
                 releasesToDelete, idx, checked>>

\* deleteRelease returned, without the deleteTags test of line 150
DeleteReleaseReturnsTagsAlways ==
  /\ pc = "deleteRelease"
  /\ inputs' = inputs
  /\ calls' = issue(settle(calls, "ok"), "deleteRef", ref(releasesToDelete[idx].tag))
  /\ pc' = "deleteRef"
  /\ idx' = idx
  /\ UNCHANGED <<getInput, repository, foundReleaseGroups, page, releasesToDelete,
                 checked, thrown, failures>>

\* deleteReleases without the await of line 144: the loop goes on while the
\* deleteRelease call is outstanding
DeleteReleaseNotAwaited ==
  /\ pc = "deleteRelease"
  /\ inputs' = inputs
  /\ IF inputs.deleteTags
       THEN /\ calls' = issue(calls, "deleteRef", ref(releasesToDelete[idx].tag))
            /\ pc' = "deleteRef"
            /\ idx' = idx
       ELSE deleteFrom(releasesToDelete, idx + 1, calls)
  /\ UNCHANGED <<getInput, repository, foundReleaseGroups, page, releasesToDelete,
                 checked, thrown, failures>>

\* deleteRelease returned: the tag's deleteRef, or the next release
DeleteReleaseReturns ==
  /\ pc = "deleteRelease"
  /\ inputs' = inputs
  /\ IF inputs.deleteTags
       THEN /\ calls' = issue(settle(calls, "ok"), "deleteRef",
                              ref(releasesToDelete[idx].tag))
            /\ pc' = "deleteRef"
            /\ idx' = idx
       ELSE deleteFrom(releasesToDelete, idx + 1, settle(calls, "ok"))
  /\ UNCHANGED <<getInput, repository, foundReleaseGroups, page, releasesToDelete,
                 checked, thrown, failures>>

\* deleteRelease failed and the loop went on to the next release
DeleteReleaseThrowsContinues ==
  /\ pc = "deleteRelease"
  /\ inputs' = inputs
  /\ deleteFrom(releasesToDelete, idx + 1, settle(calls, "failed"))
  /\ UNCHANGED <<getInput, repository, foundReleaseGroups, page, releasesToDelete,
                 checked, thrown, failures>>

\* deleteRelease failed: run's catch
DeleteReleaseThrows ==
  /\ pc = "deleteRelease"
  /\ calls' = settle(calls, "failed")
  /\ catch(ErrorObject("deleteRelease failed"))
  /\ UNCHANGED <<getInput, repository, inputs, foundReleaseGroups, page,
                 releasesToDelete, idx, checked>>

\* deleteRef returned: the next release
DeleteRefReturns ==
  /\ pc = "deleteRef"
  /\ inputs' = inputs
  /\ deleteFrom(releasesToDelete, idx + 1, settle(calls, "ok"))
  /\ UNCHANGED <<getInput, repository, foundReleaseGroups, page, releasesToDelete,
                 checked, thrown, failures>>

\* deleteRef failed: run's catch
DeleteRefThrows ==
  /\ pc = "deleteRef"
  /\ calls' = settle(calls, "failed")
  /\ catch(ErrorObject("deleteRef failed"))
  /\ UNCHANGED <<getInput, repository, inputs, foundReleaseGroups, page,
                 releasesToDelete, idx, checked>>

Next ==
  \/ Start
  \/ ListReleasesReturns
  \/ ListReleasesThrows
  \/ DeleteReleaseReturns
  \/ DeleteReleaseThrows
  \/ DeleteRefReturns
  \/ DeleteRefThrows

Spec == Init /\ [][Next]_vars


(***************************************************************************)
(* What the properties below speak about.                                  *)
(***************************************************************************)
CallsOf(op) == SelectSeq(calls, LAMBDA c : c.op = op)
DeleteCalls == SelectSeq(calls, LAMBDA c : c.op # "listReleases")

\* the pages that have arrived, end to end
OkPages == Len(SelectSeq(calls, LAMBDA c : c.op = "listReleases" /\ c.status = "ok"))
Fetched == SubSeq(repository, 1, Min(Len(repository), per_page * OkPages))
NonDrafts(rels) == SelectSeq(rels, LAMBDA r : ~r.draft)

\* fetchAndFilterReleases has returned its list
FetchReturned ==
  \/ pc \in {"deleteRelease", "deleteRef", "done"}
  \/ pc = "failed" /\ thrown.text \in {"deleteRelease failed", "deleteRef failed"}

\* the name passes the prefix check and the regex check of this run
Passes(name) ==
  /\ inputs.prefix = <<>> \/ startsWith(name, inputs.prefix)
  /\ inputs.regex # <<>>
  /\ test(inputs.pattern, name)

\* the names checked so far that pass both checks and capture a group
CapturingNames ==
  {n \in {checked[i].name : i \in 1..Len(checked)} :
     Passes(n) /\ ~matchGroup(inputs.pattern, n).threw}

GroupOfName(n) == matchGroup(inputs.pattern, n).group

(***************************************************************************)
(* C1. With keep-latest-releases enabled, of the calls of checkReleaseName *)
(* on names that pass the prefix and regex checks and capture the same     *)
(* group, the first returns false and leaves the group recorded as seen,   *)
(* and every later one returns true.                                       *)
(***************************************************************************)
C1_FirstOfGroupKept ==
  inputs.keepLatestReleases =>
    \A n \in CapturingNames :
      LET same  == {m \in CapturingNames : GroupOfName(m) = GroupOfName(n)}
          at    == {i \in 1..Len(checked) : checked[i].name \in same}
          first == CHOOSE i \in at : \A k \in at : i <= k
      IN  /\ includes(foundReleaseGroups, GroupOfName(n))
          /\ \A i \in at : checked[i].ret = (i # first)

\* two calls of one group have been made, under a prefix and the regex
C1_Witness ==
  /\ inputs.keepLatestReleases
  /\ inputs.prefix # <<>>
  /\ \E i, j \in 1..Len(checked) :
       /\ i < j
       /\ checked[i].name # checked[j].name
       /\ checked[i].name \in CapturingNames
       /\ checked[j].name \in CapturingNames
       /\ GroupOfName(checked[i].name) = GroupOfName(checked[j].name)
       /\ ~checked[i].ret
       /\ checked[j].ret

(***************************************************************************)
(* C2. Draft releases are never selected and never touch the seen groups:  *)
(* the list built so far and foundReleaseGroups are what the loop gives    *)
(* for the pages that arrived with every draft release taken out.          *)
(***************************************************************************)
C2_DraftsIgnored ==
  pc # "start" =>
    /\ \A k \in 1..Len(releasesToDelete) :
         ~repository[releasesToDelete[k].id].draft
    /\ \E rels \in {NonDrafts(Fetched)} :
       \E acc \in {forReleases(rels, 1, Len(rels), inputs,
                     [releasesToDelete |-> <<>>, found |-> <<>>,
                      checked |-> <<>>, threw |-> FALSE])} :
         /\ releasesToDelete = acc.releasesToDelete
         /\ foundReleaseGroups = acc.found

\* a draft whose name captures a group came first, and the old release of
\* that group after it was still the one kept for the group
C2_Witness ==
  /\ pc = "done"
  /\ inputs.keepLatestReleases
  /\ Len(repository) >= 2
  /\ repository[1].draft
  /\ Passes(repository[1].name)
  /\ \E k \in 2..Len(repository) :
       /\ ~repository[k].draft
       /\ Passes(repository[k].name)
       /\ GroupOfName(repository[k].name) = GroupOfName(repository[1].name)
       /\ releaseDate(repository[k]) < inputs.dateCutoff
  /\ foundReleaseGroups = <<GroupOfName(repository[1].name)>>
  /\ releasesToDelete = <<>>

(***************************************************************************)
(* C3. A release that is no draft is in the list if and only if            *)
(* checkReleaseName returned true for its name and dateCutoff is strictly  *)
(* after its effective date.                                               *)
(***************************************************************************)
SelectedIds == {releasesToDelete[k].id : k \in 1..Len(releasesToDelete)}

C3_SelectedIffNameAndAge ==
  \E rels \in {NonDrafts(Fetched)} :
    \A k \in 1..Len(checked) :
      (rels[k].id \in SelectedIds) <=>
        (checked[k].ret /\ releaseDate(rels[k]) < inputs.dateCutoff)

\* a release dated exactly at the cut-off passed the name check and was left
\* out, while an older one was selected
C3_Witness ==
  /\ pc = "done"
  /\ \E rels \in {NonDrafts(Fetched)} :
     \E k, l \in 1..Len(checked) :
       /\ checked[k].ret
       /\ releaseDate(rels[k]) = inputs.dateCutoff
       /\ rels[k].id \notin SelectedIds
       /\ rels[l].id \in SelectedIds

(***************************************************************************)
(* C4. With dryRun true, no deleteRelease and no deleteRef call is made.   *)
(***************************************************************************)
C4_DryRunDeletesNothing ==
  inputs.dryRun => DeleteCalls = <<>>

\* a dry run went over a list of two releases, with delete-tags on
C4_Witness ==
  /\ pc = "done"
  /\ inputs.dryRun
  /\ inputs.deleteTags
  /\ Len(releasesToDelete) >= 2

(***************************************************************************)
(* C5. With keep-latest-releases 'true' and the regex absent, or a regex   *)
(* that contains no capture group named "group", parseInputs fails and the *)
(* run makes no listing call and no deletion call.                         *)
(***************************************************************************)
C5_GroupSetupValidated ==
  ( /\ getInput.keepLatestReleases = "true"
    /\ \/ getInput.regex = <<>>
       \/ ~HasNamedGroup(RegExp(getInput.regex))
    /\ pc # "start" )
  => (pc = "failed" /\ calls = <<>>)

(***************************************************************************)
(* C6. The listing calls ask for pages 1, 2, 3, ... in this order, each    *)
(* with page size 100, and page n+1 is asked for if and only if page n     *)
(* returned exactly 100 records.                                           *)
(***************************************************************************)
C6_PagesInOrder ==
  \E lists \in {CallsOf("listReleases")} :
    \A n \in 1..Len(lists) :
      /\ lists[n].arg = <<n, 100>>
      /\ lists[n].status = "ok" =>
           ((n < Len(lists)) <=> (Len(listReleases(repository, n, 100)) = 100))

(***************************************************************************)
(* C7. The list fetchAndFilterReleases returns is the eligible releases of *)
(* the fetched pages, each once, in the order of the pages end to end.     *)
(***************************************************************************)
EligibleOf(rels) ==
  SelectSeq([k \in 1..Len(rels) |-> k],
            LAMBDA k : checked[k].ret /\ releaseDate(rels[k]) < inputs.dateCutoff)

C7_ListIsEligibleInOrder ==
  FetchReturned =>
    \E rels \in {NonDrafts(Fetched)} :
    \E keep \in {EligibleOf(rels)} :
      releasesToDelete =
        [i \in 1..Len(keep) |->
           [id |-> rels[keep[i]].id, name |-> rels[keep[i]].name,
            tag |-> rels[keep[i]].tag_name]]

\* the list holds a release of the first page and a release of a later page
C7_Witness ==
  /\ pc = "done"
  /\ Fetched = repository
  /\ Len(releasesToDelete) = 2
  /\ releasesToDelete[1].id <= per_page
  /\ releasesToDelete[2].id > per_page

(***************************************************************************)
(* C8. With dryRun false and deleteTags true, the deletion calls are, for  *)
(* the releases of the list in order, deleteRelease with the release's id  *)
(* and then deleteRef with 'tags/' + tag; each call starts only after the  *)
(* one before it has completed, and a run that ends normally has made both *)
(* calls for every release.                                                *)
(***************************************************************************)
TagsRef(tag) == <<"t", "a", "g", "s", "/">> \o tag

C8_TagAfterItsRelease ==
  (~inputs.dryRun /\ inputs.deleteTags) =>
    \E made \in {DeleteCalls} :
      /\ Len(made) <= 2 * Len(releasesToDelete)
      /\ \A k \in 1..Len(made) :
           /\ k % 2 = 1 =>
                /\ made[k].op = "deleteRelease"
                /\ made[k].arg = <<releasesToDelete[(k + 1) \div 2].id>>
           /\ k % 2 = 0 =>
                /\ made[k].op = "deleteRef"
                /\ made[k].arg = TagsRef(releasesToDelete[k \div 2].tag)
           /\ k < Len(made) => made[k].status = "ok"
      /\ pc = "done" => Len(made) = 2 * Len(releasesToDelete)

\* two releases and their tags have been deleted
C8_Witness ==
  /\ pc = "done"
  /\ ~inputs.dryRun
  /\ inputs.deleteTags
  /\ Len(releasesToDelete) >= 2
  /\ Len(CallsOf("deleteRef")) = Len(releasesToDelete)

(***************************************************************************)
(* C9. With dryRun false and deleteTags false, the deletion calls are one  *)
(* deleteRelease per release of the list, with its id, in list order, and  *)
(* no deleteRef.                                                           *)
(***************************************************************************)
C9_OnlyReleasesDeleted ==
  (pc # "start" /\ ~inputs.dryRun /\ ~inputs.deleteTags) =>
    \E made \in {DeleteCalls} :
      /\ Len(made) <= Len(releasesToDelete)
      /\ \A k \in 1..Len(made) :
           /\ made[k].op = "deleteRelease"
           /\ made[k].arg = <<releasesToDelete[k].id>>
      /\ pc = "done" => Len(made) = Len(releasesToDelete)

\* two releases have been deleted, and no tag
C9_Witness ==
  /\ pc = "done"
  /\ getInput.deleteTags = "false"
  /\ getInput.dryRun = "false"
  /\ Len(releasesToDelete) >= 2
  /\ Len(DeleteCalls) = Len(releasesToDelete)

(***************************************************************************)
(* C10. A run that ends in an error has reported exactly one failure       *)
(* message, and that message is the text of the error that was raised.     *)
(***************************************************************************)
C10_FailureIsErrorText ==
  pc = "failed" => failures = <<[undefined |-> FALSE, text |-> thrown.text]>>

(***************************************************************************)
(* C11. With keep-latest-releases enabled and the releases listed from the *)
(* most recent effective date to the oldest, the release of a group that   *)
(* the name check leaves out (it passes prefix and regex, and the check    *)
(* returns false) has the latest effective date among the releases of the  *)
(* repository that are no drafts, pass prefix and regex and capture the    *)
(* same group; once the list is returned every such group has exactly one  *)
(* release left out.                                                       *)
(***************************************************************************)
MostRecentFirst ==
  \A i, j \in 1..Len(repository) :
    i < j => releaseDate(repository[i]) >= releaseDate(repository[j])

\* positions, among the releases that are no drafts, of the ones left out
KeptAt(rels) ==
  {k \in 1..Len(checked) :
     ~checked[k].threw /\ ~checked[k].ret /\ Passes(rels[k].name)}

C11_KeptIsLatestOfGroup ==
  (inputs.keepLatestReleases /\ HasNamedGroup(inputs.pattern) /\ MostRecentFirst) =>
    \E rels \in {NonDrafts(repository)} :
    \E kept \in {KeptAt(rels)} :
      /\ \A k \in kept : \A l \in 1..Len(rels) :
           (Passes(rels[l].name)
              /\ GroupOfName(rels[l].name) = GroupOfName(rels[k].name))
             => releaseDate(rels[l]) <= releaseDate(rels[k])
      /\ FetchReturned =>
           \A l \in 1..Len(rels) :
             Passes(rels[l].name) =>
               Cardinality({k \in kept :
                 GroupOfName(rels[k].name) = GroupOfName(rels[l].name)}) = 1

\* of two releases of one group the recent one, listed first, was left out
\* and the older one was selected
C11_Witness ==
  /\ pc = "done"
  /\ inputs.keepLatestReleases
  /\ MostRecentFirst
  /\ Len(repository) >= 2
  /\ \E rels \in {NonDrafts(repository)} :
       /\ Len(rels) >= 2
       /\ 1 \in KeptAt(rels)
       /\ Passes(rels[2].name)
       /\ GroupOfName(rels[2].name) = GroupOfName(rels[1].name)
       /\ releaseDate(rels[2]) < releaseDate(rels[1])
       /\ rels[2].id \in SelectedIds

(***************************************************************************)
(* C12. A deleteRelease or deleteRef call that failed is the last call of  *)
(* the run: the run has ended in failure, no deletion call of any kind     *)
(* follows it (not the tag of the release, not the releases after it), and *)
(* the calls made before it have completed and stay as they are.           *)
(***************************************************************************)
C12_NothingAfterFailedDeletion ==
  \A k \in 1..Len(calls) :
    (calls[k].op # "listReleases" /\ calls[k].status = "failed") =>
      /\ k = Len(calls)
      /\ pc = "failed"
      /\ \A i \in 1..(k - 1) : calls[i].status = "ok"

\* the release deletion of the first of two selected releases failed, with
\* delete-tags on: its tag and the second release were not attempted
C12_Witness ==
  /\ pc = "failed"
  /\ thrown.text = "deleteRelease failed"
  /\ inputs.deleteTags
  /\ Len(releasesToDelete) >= 2
  /\ idx = 1
  /\ Len(DeleteCalls) = 1

(***************************************************************************)
(* C13. A listReleases call that failed is the last call of the run: the   *)
(* run has ended in failure, the page is not asked for again, no later     *)
(* page is asked for, and no deleteRelease or deleteRef call is made, also *)
(* when releases of earlier pages are already in the list.                 *)
(***************************************************************************)
C13_NothingAfterFailedListing ==
  \A k \in 1..Len(calls) :
    (calls[k].op = "listReleases" /\ calls[k].status = "failed") =>
      /\ k = Len(calls)
      /\ pc = "failed"
      /\ DeleteCalls = <<>>

\* page 2 failed while a release of page 1 was already in the list
C13_Witness ==
  /\ pc = "failed"
  /\ thrown.text = "listReleases failed"
  /\ page = 2
  /\ releasesToDelete # <<>>
  /\ Len(calls) = 2

(***************************************************************************)
(* C14. With keep-latest-releases disabled, checkReleaseName returns true  *)
(* for a name if and only if every configured filter passes: always when   *)
(* neither prefix nor regex is configured, startsWith(prefix) when only    *)
(* the prefix is, pattern.test when only the regex is, and both when both  *)
(* are configured.                                                         *)
(***************************************************************************)
C14_NameFiltersConjoined ==
  (pc # "start" /\ ~inputs.keepLatestReleases) =>
    \A k \in 1..Len(checked) :
      /\ ~checked[k].threw
      /\ checked[k].ret =
           CASE getInput.prefix = <<>> /\ getInput.regex = <<>> -> TRUE
             [] getInput.prefix # <<>> /\ getInput.regex = <<>> ->
                  startsWith(checked[k].name, getInput.prefix)
             [] getInput.prefix = <<>> /\ getInput.regex # <<>> ->
                  test(RegExp(getInput.regex), checked[k].name)
             [] OTHER ->
                  /\ startsWith(checked[k].name, getInput.prefix)
                  /\ test(RegExp(getInput.regex), checked[k].name)

\* with both filters configured, a name that passes the regex and not the
\* prefix was refused and a name that passes both was accepted
C14_Witness ==
  /\ ~inputs.keepLatestReleases
  /\ getInput.prefix # <<>>
  /\ getInput.regex # <<>>
  /\ \E k, l \in 1..Len(checked) :
       /\ ~checked[k].ret
       /\ test(RegExp(getInput.regex), checked[k].name)
       /\ ~startsWith(checked[k].name, getInput.prefix)
       /\ checked[l].ret

(***************************************************************************)
(* C15. The date compared with dateCutoff is published_at when the release *)
(* has one and created_at only when it has none: a checked release is in   *)
(* the list if and only if the name check returned true and that date is   *)
(* before the cut-off, so a release published at or after the cut-off is   *)
(* not selected even when it was created before it.                        *)
(***************************************************************************)
C15_PublishedBeforeCreated ==
  \E rels \in {NonDrafts(Fetched)} :
    \A k \in 1..Len(checked) :
      (rels[k].id \in SelectedIds) <=>
        /\ checked[k].ret
        /\ IF rels[k].published_at # Null
             THEN rels[k].published_at < Now - duration(getInput.maxAge)
             ELSE rels[k].created_at < Now - duration(getInput.maxAge)

\* a release created before the cut-off and published after it passed the
\* name check and was left out; a release without published_at and created
\* before the cut-off was selected
C15_Witness ==
  /\ pc = "done"
  /\ \E rels \in {NonDrafts(Fetched)} :
     \E k, l \in 1..Len(checked) :
       /\ checked[k].ret
       /\ rels[k].published_at >= inputs.dateCutoff
       /\ rels[k].created_at < inputs.dateCutoff
       /\ rels[k].id \notin SelectedIds
       /\ rels[l].published_at = Null
       /\ rels[l].id \in SelectedIds

(***************************************************************************)
(* C16. Each of the flags deleteTags, dryRun and keepLatestReleases that   *)
(* parseInputs produces is true if and only if its input is exactly        *)
(* 'true'; 'false', another spelling, null and no value give false, and    *)
(* only a keep-latest-releases of 'true' can make parseInputs fail.        *)
(***************************************************************************)
C16_FlagsAreExactlyTrue ==
  /\ calls # <<>> =>
       /\ inputs.deleteTags = (getInput.deleteTags = "true")
       /\ inputs.dryRun = (getInput.dryRun = "true")
       /\ inputs.keepLatestReleases = (getInput.keepLatestReleases = "true")
  /\ (pc = "failed" /\ calls = <<>>) => getInput.keepLatestReleases = "true"

\* with dry-run 'TRUE', delete-tags null and no keep-latest-releases, both
\* releases of a group were deleted and no tag was
C16_Witness ==
  /\ pc = "done"
  /\ getInput.dryRun = "TRUE"
  /\ getInput.deleteTags = "null"
  /\ getInput.keepLatestReleases = ""
  /\ getInput.regex # <<>>
  /\ Len(CallsOf("deleteRelease")) = 2
  /\ CallsOf("deleteRef") = <<>>

(***************************************************************************)
(* C17. The seen groups last for the whole scan and are updated before the *)
(* date is looked at: with keep-latest-releases enabled, checkReleaseName  *)
(* returns true for a release that is no draft exactly when its name       *)
(* passes prefix and regex and an earlier release of the scan, on this     *)
(* page or a page before it and whatever its date, passed them with the    *)
(* same group; such a release is selected when its date is before the      *)
(* cut-off.                                                                *)
(***************************************************************************)
\* where the group of each passing name was first met in the scan
FirstSeenAt(names, grp) ==
  [n \in names |->
     CHOOSE k \in 1..Len(checked) :
       /\ checked[k].name \in names
       /\ grp[checked[k].name] = grp[n]
       /\ \A l \in 1..(k - 1) :
            ~(checked[l].name \in names /\ grp[checked[l].name] = grp[n])]

C17_GroupsSeenAcrossPages ==
  (inputs.keepLatestReleases /\ HasNamedGroup(inputs.pattern)) =>
    \E rels \in {NonDrafts(Fetched)} :
    \E names \in {{n \in {checked[i].name : i \in 1..Len(checked)} : Passes(n)}} :
    \E grp \in {[n \in names |-> GroupOfName(n)]} :
    \E first \in {FirstSeenAt(names, grp)} :
      \A k \in 1..Len(checked) :
        /\ checked[k].ret <=>
             (checked[k].name \in names /\ k > first[checked[k].name])
        /\ (rels[k].id \in SelectedIds) <=>
             /\ checked[k].name \in names
             /\ k > first[checked[k].name]
             /\ releaseDate(rels[k]) < inputs.dateCutoff

\* the first release of page 1 is not older than the cut-off, and a release
\* of its group on page 2 was selected
C17_Witness ==
  /\ pc = "done"
  /\ inputs.keepLatestReleases
  /\ Len(repository) > per_page
  /\ ~repository[1].draft
  /\ Passes(repository[1].name)
  /\ releaseDate(repository[1]) >= inputs.dateCutoff
  /\ \E k \in 1..Len(releasesToDelete) :
       /\ releasesToDelete[k].id > per_page
       /\ GroupOfName(releasesToDelete[k].name) = GroupOfName(repository[1].name)

(***************************************************************************)
(* C18. foundReleaseGroups never holds a group twice and never loses one:  *)
(* every step of a run leaves the groups it held in place, may add groups  *)
(* at the end, and leaves no group in it twice; with a regex that has the  *)
(* named group, the groups it holds are the groups of the names checked so *)
(* far that pass prefix and regex, in the order they were first met.       *)
(***************************************************************************)
NoDuplicates(list) == \A i, j \in 1..Len(list) : list[i] = list[j] => i = j

\* the first of the calls chk whose name passes with group g
FirstOfGroup(chk, names, grp, g) ==
  CHOOSE k \in 1..Len(chk) :
    /\ chk[k].name \in names
    /\ grp[chk[k].name] = g
    /\ \A l \in 1..(k - 1) : ~(chk[l].name \in names /\ grp[chk[l].name] = g)

\* found holds the groups of the passing names of the calls chk, in the order
\* in which the calls first met them
InOrderMet(found, chk) ==
  \E names \in {{n \in {chk[i].name : i \in 1..Len(chk)} : Passes(n)}} :
  \E grp \in {[n \in names |-> GroupOfName(n)]} :
    /\ {found[i] : i \in 1..Len(found)} = {grp[n] : n \in names}
    /\ \A i, j \in 1..Len(found) :
         i < j => FirstOfGroup(chk, names, grp, found[i])
                    < FirstOfGroup(chk, names, grp, found[j])

C18_GroupsAddedOnce ==
  [][ /\ NoDuplicates(foundReleaseGroups')
      /\ Len(foundReleaseGroups') >= Len(foundReleaseGroups)
      /\ SubSeq(foundReleaseGroups', 1, Len(foundReleaseGroups)) = foundReleaseGroups
      /\ (inputs.keepLatestReleases /\ HasNamedGroup(inputs.pattern)) =>
           InOrderMet(foundReleaseGroups', checked') ]_vars

\* two groups are held, and more than two names of these groups were checked
C18_Witness ==
  /\ pc = "done"
  /\ Len(foundReleaseGroups) = 2
  /\ Len(SelectSeq(checked, LAMBDA c : c.ret)) >= 1
  /\ Len(checked) > 2

(***************************************************************************)
(* C19. At most one call of octokit is outstanding at any time: a call is  *)
(* made only when every call before it has completed, run waits exactly    *)
(* while its last call is outstanding, and no listReleases call follows a  *)
(* deleteRelease or deleteRef call.                                        *)
(***************************************************************************)
C19_OneCallAtATime ==
  /\ \A k \in 1..Len(calls) : calls[k].status = "pending" => k = Len(calls)
  /\ \A i, j \in 1..Len(calls) :
       (i < j /\ calls[i].op # "listReleases") => calls[j].op # "listReleases"
  /\ (pc \in {"listReleases", "deleteRelease", "deleteRef"}) <=>
       (calls # <<>> /\ calls[Len(calls)].status = "pending")

\* a deleteRef is outstanding after two pages and a deleteRelease completed
C19_Witness ==
  /\ pc = "deleteRef"
  /\ Len(calls) = 4
  /\ calls[1].op = "listReleases" /\ calls[1].status = "ok"
  /\ calls[2].op = "listReleases" /\ calls[2].status = "ok"
  /\ calls[3].op = "deleteRelease" /\ calls[3].status = "ok"
  /\ calls[4].status = "pending"

(***************************************************************************)
(* C20. With keep-latest-releases enabled and the releases listed in any   *)
(* order, every release a deleteRelease call is made for comes, in the     *)
(* listing, after a release that is no draft, passes prefix and regex with *)
(* the same group, is not in the list and has no deleteRelease call: every *)
(* group keeps a release.                                                  *)
(***************************************************************************)
DeletedIds == {calls[c].arg[1] : c \in {x \in 1..Len(calls) : calls[x].op = "deleteRelease"}}

C20_EveryGroupKeepsOne ==
  inputs.keepLatestReleases =>
    \A d \in DeletedIds :
      \E l \in 1..(d - 1) :
        /\ ~repository[l].draft
        /\ Passes(repository[l].name)
        /\ GroupOfName(repository[l].name) = GroupOfName(repository[d].name)
        /\ l \notin SelectedIds
        /\ l \notin DeletedIds

\* the listing starts with the older release of a group: it was kept and the
\* more recent one after it was deleted
C20_Witness ==
  /\ pc = "done"
  /\ inputs.keepLatestReleases
  /\ Len(repository) = 2
  /\ releaseDate(repository[1]) < releaseDate(repository[2])
  /\ DeletedIds = {2}

(***************************************************************************)
(* C21. A name that fails the prefix check or the regex check leaves       *)
(* foundReleaseGroups as it is and is refused, in the closure and in its   *)
(* composed variant alike, so it cannot take the place of the kept release *)
(* of a group: with keep-latest-releases enabled, foundReleaseGroups holds *)
(* groups of passing names only, and the first checked release of a group  *)
(* whose name passes both checks is the one the check returns false for.   *)
(***************************************************************************)
Unchanged(found) == [threw |-> FALSE, ret |-> FALSE, found |-> found]

C21_FailingNamesLeaveGroups ==
  (inputs.keepLatestReleases /\ HasNamedGroup(inputs.pattern)) =>
    /\ \A n \in {repository[i].name : i \in 1..Len(repository)} :
         ~Passes(n) =>
           /\ checkReleaseName(inputs, foundReleaseGroups, n)
                = Unchanged(foundReleaseGroups)
           /\ checkReleaseNameComposed(inputs, foundReleaseGroups, n)
                = Unchanged(foundReleaseGroups)
    /\ \E names \in {{n \in {checked[i].name : i \in 1..Len(checked)} : Passes(n)}} :
       \E grp \in {[n \in names |-> GroupOfName(n)]} :
       \E first \in {FirstSeenAt(names, grp)} :
         /\ \A i \in 1..Len(foundReleaseGroups) :
              foundReleaseGroups[i] \in {grp[n] : n \in names}
         /\ \A k \in 1..Len(checked) :
              /\ checked[k].name \notin names => ~checked[k].ret
              /\ (checked[k].name \in names /\ k = first[checked[k].name])
                   => ~checked[k].ret

\* a name that matches the regex with a group and fails the prefix came
\* first; the release of that group after it, which passes both, was kept
C21_Witness ==
  /\ inputs.keepLatestReleases
  /\ Len(checked) = 2
  /\ test(inputs.pattern, checked[1].name)
  /\ ~startsWith(checked[1].name, inputs.prefix)
  /\ Passes(checked[2].name)
  /\ GroupOfName(checked[1].name) = GroupOfName(checked[2].name)
  /\ ~checked[2].ret
  /\ foundReleaseGroups = <<GroupOfName(checked[2].name)>>

(***************************************************************************)
(* C22. Every deleteRelease call of a run is for a release that is no      *)
(* draft, for whose name checkReleaseName returned true and whose          *)
(* effective date is before dateCutoff; no release id gets two             *)
(* deleteRelease calls; and every deleteRef call is for the tag of the     *)
(* release whose deleteRelease call was made just before it and            *)
(* succeeded.                                                              *)
(***************************************************************************)
C22_OnlyEligibleDeleted ==
  \E rels \in {NonDrafts(Fetched)} :
    \A c \in 1..Len(calls) :
      /\ calls[c].op = "deleteRelease" =>
           /\ calls[c].arg[1] \in 1..Len(repository)
           /\ ~repository[calls[c].arg[1]].draft
           /\ releaseDate(repository[calls[c].arg[1]]) < inputs.dateCutoff
           /\ \E k \in 1..Len(checked) :
                rels[k].id = calls[c].arg[1] /\ checked[k].ret
           /\ \A d \in 1..Len(calls) :
                (calls[d].op = "deleteRelease" /\ calls[d].arg = calls[c].arg) => d = c
      /\ calls[c].op = "deleteRef" =>
           /\ c > 1
           /\ calls[c - 1].op = "deleteRelease"
           /\ calls[c - 1].status = "ok"
           /\ calls[c].arg = TagsRef(repository[calls[c - 1].arg[1]].tag_name)

\* two releases and their tags were deleted while the repository holds a
\* release that was not
C22_Witness ==
  /\ pc = "done"
  /\ Len(CallsOf("deleteRelease")) = 2
  /\ Len(CallsOf("deleteRef")) = 2
  /\ Len(NonDrafts(repository)) > 2

(***************************************************************************)
(* C23. fetchAndFilterReleases ends exactly when a page with fewer than    *)
(* 100 records arrives: a step from a full page goes on to the next page,  *)
(* whose number is one higher, unless the step fails, and a step from a    *)
(* shorter page leaves the loop. For a repository of N releases served in  *)
(* pages of 100 the number of listReleases calls never exceeds             *)
(* N div 100 + 1, which bounds the loop, and is exactly that when the      *)
(* function returns, every page before the last holding 100 records, so    *)
(* that for N a positive multiple of 100 the last call returns an empty    *)
(* page.                                                                   *)
(***************************************************************************)
ListingCallsCounted ==
  /\ Len(CallsOf("listReleases")) <= Len(repository) \div per_page + 1
  /\ FetchReturned =>
       /\ Len(CallsOf("listReleases")) = Len(repository) \div per_page + 1
       /\ page = Len(CallsOf("listReleases"))
       /\ Len(listReleases(repository, page, per_page)) < per_page
       /\ \A n \in 1..(page - 1) :
            Len(listReleases(repository, n, per_page)) = per_page

Orders(n) ==
  IF n <= MaxPermuted
    THEN {f \in [1..n -> 1..n] : \A i, j \in 1..n : f[i] = f[j] => i = j}
    ELSE {[i \in 1..n |-> n + 1 - i], [i \in 1..n |-> IF i = n THEN 1 ELSE i + 1]}

C24_OrderDoesNotMatter ==
  (pc = "done" /\ ~inputs.keepLatestReleases) =>
    \A f \in Orders(Len(repository)) :
      \E permuted \in {[i \in 1..Len(repository) |-> repository[f[i]]]} :
      \E acc \in {forReleases(permuted, 1, Len(permuted), inputs,
                    [releasesToDelete |-> <<>>, found |-> <<>>,
                     checked |-> <<>>, threw |-> FALSE])} :
        acc.releasesToDelete =
          SelectSeq([i \in 1..Len(permuted) |->
                       [id |-> permuted[i].id, name |-> permuted[i].name,
                        tag |-> permuted[i].tag_name]],
                    LAMBDA e : e.id \in SelectedIds)

\* with a regex that has the group, two releases of one group on two pages
\* were both selected, and the repository holds releases that were not
C24_Witness ==
  /\ pc = "done"
  /\ ~inputs.keepLatestReleases
  /\ HasNamedGroup(inputs.pattern)
  /\ Len(repository) > per_page
  /\ Len(releasesToDelete) = 2
  /\ GroupOfName(releasesToDelete[1].name) = GroupOfName(releasesToDelete[2].name)
  /\ releasesToDelete[1].id <= per_page
  /\ releasesToDelete[2].id > per_page

====
